---- MODULE Spec2Model ----
(***************************************************************************)
(* A model of the ML training log watcher: MLLogWatcher (src/watcher.py),  *)
(* the metric parsers and their manager (src/utils.py) and the modular     *)
(* watcher built from them (src/log_watcher.py).                           *)
(*                                                                         *)
(* Text is a sequence of one-character strings.  The log file is a         *)
(* sequence of single-byte characters; the watcher opens it in text mode,  *)
(* so what it reads is the decoded form of the bytes (universal newlines). *)
(* The value None and the empty string are both written <<>>: the code     *)
(* tests them only for truthiness.  An absent e-mail setting (None or "")  *)
(* is written "".                                                          *)
(***************************************************************************)
EXTENDS Integers, Sequences, FiniteSets, TLC

VARIABLES
    pc,               \* position of the process in main()/watch()
    logfile,          \* bytes of the log file on disk
    shrunk,           \* the log file has been truncated at least once
    now,              \* time.time()
    check_interval,   \* self.check_interval
    email_interval,   \* self.email_interval
    sender_email,     \* self.sender_email
    sender_password,  \* self.sender_password
    recipient_email,  \* self.recipient_email
    last_position,    \* self.last_position
    buffer,           \* "".join(self.buffer): the list's elements are never empty
    last_email_time,  \* self.last_email_time
    new_content,      \* local new_content of watch(), <<>> between iterations
    email_body,       \* local email_body of watch(): the log text it embeds
    delivered,        \* the log texts the SMTP server accepted, end to end
    out,              \* what the latest step printed
    sleeps,           \* time.sleep calls made since the latest poll
    interrupted,      \* a KeyboardInterrupt has been delivered to the process
    parsers,          \* MetricPluginManager.parsers, each with its series
    last_line,        \* argument of the latest parse_line call
    results,          \* return value of the latest parse_line call
    raised,           \* the latest parse_line call raised ValueError
    plot_data,        \* return value of the latest get_all_plot_data call
    metrics_summary,  \* the table rows of the latest format_email_body call
    saved_plots       \* the files the latest generate_training_plots call wrote

vars == <<pc, logfile, shrunk, now, check_interval, email_interval,
          sender_email, sender_password, recipient_email,
          last_position, buffer, last_email_time, new_content, email_body,
          delivered, out, sleeps, interrupted, parsers, last_line,
          results, raised, plot_data, metrics_summary, saved_plots>>

watcherVars == <<pc, logfile, shrunk, now, check_interval, email_interval,
                 sender_email, sender_password, recipient_email,
                 last_position, buffer, last_email_time, new_content,
                 email_body, delivered, out, sleeps, interrupted>>

\* what the reporting calls returned
reportVars == <<plot_data, metrics_summary, saved_plots>>

parserVars == <<parsers, last_line, results, raised, reportVars>>

\* the settings of the watcher object, fixed once watch() has set them up
configVars == <<check_interval, email_interval, sender_email, sender_password,
                recipient_email>>

\* the watcher's state proper
watcherProgramVars == <<pc, now, configVars, last_position, buffer,
                        last_email_time, new_content, email_body, delivered,
                        out, sleeps, interrupted>>

\* everything but the log file
programVars == <<pc, now, configVars, last_position, buffer, last_email_time,
                 new_content, email_body, delivered, out, sleeps, interrupted,
                 parserVars>>

(***************************************************************************)
(* Bounds.                                                                 *)
(***************************************************************************)
MaxFileLen == 9
MaxTime == 6
MaxParses == 2
MaxParsers == 6

CheckIntervals == {1, 2}
EmailIntervals == {2, 3}

(***************************************************************************)
(* Text helpers.                                                           *)
(***************************************************************************)
CR == "\r"
LF == "\n"

RECURSIVE Decode(_)
\* Text-mode read with newline=None: "\r\n" and a lone "\r" both become "\n".
Decode(bytes) ==
    IF bytes = <<>> THEN <<>>
    ELSE IF Head(bytes) = CR
         THEN IF Len(bytes) >= 2 /\ bytes[2] = LF
              THEN <<LF>> \o Decode(Tail(Tail(bytes)))
              ELSE <<LF>> \o Decode(Tail(bytes))
         ELSE <<Head(bytes)>> \o Decode(Tail(bytes))

\* f.seek(pos); f.read(): the decoded bytes from offset pos to end of file,
\* nothing when pos is at or past the end.
ReadFrom(file, pos) ==
    IF pos >= Len(file) THEN <<>>
    ELSE Decode(SubSeq(file, pos + 1, Len(file)))

\* f.tell() after seek(pos) and read() to end of file.
TellAfterRead(file, pos) ==
    IF pos >= Len(file) THEN pos ELSE Len(file)

(***************************************************************************)
(* The log file and the clock: the training process appends chunks of      *)
(* text, and the file may be truncated (rotation).                         *)
(***************************************************************************)
Chunks ==
    { <<"l", "o", "s", "s", ":", "1", LF>>,
      <<"a", CR>> }

\* The file is read by the poll alone, so a write made anywhere in an
\* iteration is taken where the next poll would see it.
AppendLog ==
    /\ pc \in {"setup", "poll"}
    /\ \E chunk \in Chunks :
          /\ Len(logfile) + Len(chunk) <= MaxFileLen
          /\ logfile' = logfile \o chunk
    /\ UNCHANGED <<shrunk, programVars>>

TruncateLog ==
    /\ pc \in {"setup", "poll"}
    /\ ~shrunk
    /\ logfile # <<>>
    /\ logfile' = <<>>
    /\ shrunk' = TRUE
    /\ UNCHANGED programVars

(***************************************************************************)
(* Text matching, as the parsers' regular expressions do it.  Every        *)
(* pattern of the program has the shape  kw[:\s]+(C+)  with C either       *)
(* [\d\.] or \d; a pattern is the record [kw, cls] of its keyword and the  *)
(* characters of its capture group.                                        *)
(***************************************************************************)
Digits == {"0", "1", "2", "3", "4", "5", "6", "7", "8", "9"}
NumChars == Digits \cup {"."}
SepChars == {":", " ", "\t", "\n", "\r", "\f"}

DigitVal ==
    ("0" :> 0) @@ ("1" :> 1) @@ ("2" :> 2) @@ ("3" :> 3) @@ ("4" :> 4) @@
    ("5" :> 5) @@ ("6" :> 6) @@ ("7" :> 7) @@ ("8" :> 8) @@ ("9" :> 9)

\* the upper-case letters the sample lines use
LowerOf ==
    ("A" :> "a") @@ ("I" :> "i") @@
    ("C" :> "c") @@
    ("D" :> "d") @@
    ("E" :> "e") @@
    ("L" :> "l") @@
    ("O" :> "o") @@
    ("R" :> "r") @@
    ("S" :> "s") @@
    ("V" :> "v") @@
    ("W" :> "w")

\* str.lower()
Lower(line) ==
    [i \in 1..Len(line) |->
        IF line[i] \in DOMAIN LowerOf THEN LowerOf[line[i]] ELSE line[i]]

RECURSIVE RunEnd(_, _, _)
\* the index after the longest run of characters of cls that starts at i
RunEnd(line, i, cls) ==
    IF i <= Len(line) /\ line[i] \in cls THEN RunEnd(line, i + 1, cls) ELSE i

\* whether the pattern matches with its keyword starting at index i
MatchesAt(line, i, pat) ==
    LET n == Len(pat.kw)
        sepEnd == RunEnd(line, i + n, SepChars)
    IN  /\ i + n - 1 <= Len(line)
        /\ \A k \in 1..n : line[i + k - 1] = pat.kw[k]
        /\ sepEnd > i + n
        /\ RunEnd(line, sepEnd, pat.cls) > sepEnd

\* re.search(pattern, line): [found, group], group being match.group(1) of
\* the leftmost match.
Search(pat, line) ==
    LET hits == {i \in 1..Len(line) : MatchesAt(line, i, pat)} IN
    IF hits = {} THEN [found |-> FALSE, group |-> <<>>]
    ELSE LET i == CHOOSE h \in hits : \A k \in hits : h <= k
             sepEnd == RunEnd(line, i + Len(pat.kw), SepChars)
         IN  [found |-> TRUE,
              group |-> SubSeq(line, sepEnd, RunEnd(line, sepEnd, pat.cls) - 1)]

(***************************************************************************)
(* float(text) for text made of digits and dots.  A number is kept as an   *)
(* integer count of 10^-FracDigits units; digits past FracDigits are not   *)
(* kept.                                                                   *)
(***************************************************************************)
FracDigits == 3

RECURSIVE Pow10(_)
Pow10(n) ==
    IF n = 0 THEN 1 ELSE 10 * Pow10(n - 1)

RECURSIVE IntOf(_)
\* the integer a string of digits writes ("" writes 0)
IntOf(ds) ==
    IF ds = <<>> THEN 0
    ELSE 10 * IntOf(SubSeq(ds, 1, Len(ds) - 1)) + DigitVal[ds[Len(ds)]]

\* float(text) raises ValueError unless text is digits with at most one dot
\* and at least one digit.
FloatRaises(text) ==
    \/ Cardinality({i \in 1..Len(text) : text[i] = "."}) > 1
    \/ \A i \in 1..Len(text) : text[i] = "."

\* float(text), for text on which it does not raise
Float(text) ==
    LET dots == {i \in 1..Len(text) : text[i] = "."}
        d == IF dots = {} THEN Len(text) + 1 ELSE CHOOSE i \in dots : TRUE
        whole == SubSeq(text, 1, d - 1)
        frac == SubSeq(text, d + 1, Len(text))
        kept == SubSeq(frac, 1, IF Len(frac) < FracDigits THEN Len(frac) ELSE FracDigits)
    IN  IntOf(whole) * Pow10(FracDigits) + IntOf(kept) * Pow10(FracDigits - Len(kept))

(***************************************************************************)
(* Keywords of the patterns and the sample log lines.                      *)
(***************************************************************************)
\* "loss"
KwLoss ==
    <<"l", "o", "s", "s">>

\* "accuracy"
KwAccuracy ==
    <<"a", "c", "c", "u", "r", "a", "c", "y">>

\* "val_loss"
KwValLoss ==
    <<"v", "a", "l", "_", "l", "o", "s", "s">>

\* "val_accuracy"
KwValAccuracy ==
    <<"v", "a", "l", "_", "a", "c", "c", "u", "r", "a", "c", "y">>

\* "wer"
KwWer ==
    <<"w", "e", "r">>

\* "substitutions"
KwSub ==
    <<"s", "u", "b", "s", "t", "i", "t", "u", "t", "i", "o", "n", "s">>

\* "deletions"
KwDel ==
    <<"d", "e", "l", "e", "t", "i", "o", "n", "s">>

\* "insertions"
KwIns ==
    <<"i", "n", "s", "e", "r", "t", "i", "o", "n", "s">>

\* "epoch"
KwEpoch ==
    <<"e", "p", "o", "c", "h">>

\* "epoch 1 loss: 0.532"
LineLoss ==
    <<"e", "p", "o", "c", "h", " ", "1", " ", "l", "o", "s", "s", ":", " ",
      "0", ".", "5", "3", "2">>

\* "val_loss: 0.3"
LineValLoss ==
    <<"v", "a", "l", "_", "l", "o", "s", "s", ":", " ", "0", ".", "3">>

\* "loss: 0.4 Accuracy 0.8"
LineAccuracy ==
    <<"l", "o", "s", "s", ":", " ", "0", ".", "4", " ", "A", "c", "c", "u",
      "r", "a", "c", "y", " ", "0", ".", "8">>

\* "loss: 0.9 accuracy: 0.5"
LineLate ==
    <<"l", "o", "s", "s", ":", " ", "0", ".", "9", " ", "a", "c", "c", "u",
      "r", "a", "c", "y", ":", " ", "0", ".", "5">>

\* "wer: 0.21 substitutions: 3 deletions: 1"
LineWer ==
    <<"w", "e", "r", ":", " ", "0", ".", "2", "1", " ", "s", "u", "b", "s",
      "t", "i", "t", "u", "t", "i", "o", "n", "s", ":", " ", "3", " ", "d",
      "e", "l", "e", "t", "i", "o", "n", "s", ":", " ", "1">>

\* "substitutions: 3"
LineSubOnly ==
    <<"s", "u", "b", "s", "t", "i", "t", "u", "t", "i", "o", "n", "s", ":",
      " ", "3">>

\* "loss: 1.2.3"
LineTwoDots ==
    <<"l", "o", "s", "s", ":", " ", "1", ".", "2", ".", "3">>

\* "loss: ..."
LineDots ==
    <<"l", "o", "s", "s", ":", " ", ".", ".", ".">>

\* "hello"
LineNone ==
    <<"h", "e", "l", "l", "o">>

\* "LOSS:\t2"
LineTab ==
    <<"L", "O", "S", "S", ":", "\t", "2">>

SampleLines ==
    {LineLoss, LineValLoss, LineAccuracy, LineWer, LineSubOnly,
     LineTwoDots, LineDots, LineNone, LineTab, LineLate}

(***************************************************************************)
(* The metric parsers.  A parser is a record: kind "std" for                *)
(* StandardMetricParser (metric_name, pattern, values) and "wer" for       *)
(* WERMetricParser, whose wer_values are kept in the field values.  An     *)
(* Optional value is a sequence of at most one element.                    *)
(***************************************************************************)
StandardMetricParser(name, kw) ==
    [kind |-> "std", metric_name |-> name, pattern |-> [kw |-> kw, cls |-> NumChars],
     values |-> <<>>, substitutions |-> <<>>, deletions |-> <<>>, insertions |-> <<>>]

WERMetricParser ==
    [kind |-> "wer", metric_name |-> "WER", pattern |-> [kw |-> KwWer, cls |-> NumChars],
     values |-> <<>>, substitutions |-> <<>>, deletions |-> <<>>, insertions |-> <<>>]

\* WERMetricParser.patterns: 'sub', 'del', 'ins'
PatSub == [kw |-> KwSub, cls |-> Digits]
PatDel == [kw |-> KwDel, cls |-> Digits]
PatIns == [kw |-> KwIns, cls |-> Digits]

NoExtra == [substitutions |-> <<>>, deletions |-> <<>>, insertions |-> <<>>]

\* MetricResult(name, value, extra_info)
MetricResult(name, value, extra) ==
    [name |-> name, value |-> value, extra_info |-> extra]

\* the outcome of a parse call: the parser afterwards, the returned result
\* (<<>> for None) and whether the call raised ValueError
Outcome(p, res, err) ==
    [parser |-> p, result |-> res, raised |-> err]

\* a parse that records 0 for a line its pattern does not match
StandardParseRecordsMiss(p, line) ==
    LET m == Search(p.pattern, Lower(line)) IN
    IF ~m.found
    THEN Outcome([p EXCEPT !.values = Append(@, 0)],
                 <<MetricResult(p.metric_name, 0, NoExtra)>>, FALSE)
    ELSE IF FloatRaises(m.group) THEN Outcome(p, <<>>, TRUE)
    ELSE LET value == Float(m.group) IN
         Outcome([p EXCEPT !.values = Append(@, value)],
                 <<MetricResult(p.metric_name, value, NoExtra)>>, FALSE)

\* StandardMetricParser.parse
StandardParse(p, line) ==
    LET m == Search(p.pattern, Lower(line)) IN
    IF ~m.found THEN Outcome(p, <<>>, FALSE)
    ELSE IF FloatRaises(m.group) THEN Outcome(p, <<>>, TRUE)
    ELSE LET value == Float(m.group) IN
         Outcome([p EXCEPT !.values = Append(@, value)],
                 <<MetricResult(p.metric_name, value, NoExtra)>>, FALSE)

\* one component of WERMetricParser.parse's metrics dict
Metric(pat, line) ==
    LET m == Search(pat, line) IN
    IF m.found /\ ~FloatRaises(m.group) THEN <<Float(m.group)>> ELSE <<>>

\* a parse that pads the series of a sub-count the line does not have
WERParsePadsAbsent(p, line) ==
    LET low == Lower(line)
        m == Search(p.pattern, low)
        sub == Metric(PatSub, low)
        del == Metric(PatDel, low)
        ins == Metric(PatIns, low)
        Pad(x) == IF x = <<>> THEN <<0>> ELSE x
    IN  IF m.found /\ FloatRaises(m.group) THEN Outcome(p, <<>>, TRUE)
        ELSE IF ~m.found THEN Outcome(p, <<>>, FALSE)
        ELSE LET value == Float(m.group) IN
             Outcome([p EXCEPT !.values = Append(@, value),
                               !.substitutions = @ \o Pad(sub),
                               !.deletions = @ \o Pad(del),
                               !.insertions = @ \o Pad(ins)],
                     <<MetricResult("WER", value,
                          [substitutions |-> sub, deletions |-> del,
                           insertions |-> ins])>>,
                     FALSE)

\* WERMetricParser.parse: the patterns are tried in the order wer, sub, del,
\* ins, and only the first can capture text that float() rejects.
WERParse(p, line) ==
    LET low == Lower(line)
        m == Search(p.pattern, low)
        sub == Metric(PatSub, low)
        del == Metric(PatDel, low)
        ins == Metric(PatIns, low)
    IN  IF m.found /\ FloatRaises(m.group) THEN Outcome(p, <<>>, TRUE)
        ELSE IF ~m.found THEN Outcome(p, <<>>, FALSE)
        ELSE LET value == Float(m.group) IN
             Outcome([p EXCEPT !.values = Append(@, value),
                               !.substitutions = @ \o sub,
                               !.deletions = @ \o del,
                               !.insertions = @ \o ins],
                     <<MetricResult("WER", value,
                          [substitutions |-> sub, deletions |-> del,
                           insertions |-> ins])>>,
                     FALSE)

\* parser.parse(line), dispatched on the parser's class
Parse(p, line) ==
    IF p.kind = "wer" THEN WERParse(p, line) ELSE StandardParse(p, line)

RECURSIVE ParseFrom(_, _, _, _)
\* MetricPluginManager.parse_line from parser i on, results so far in acc:
\* [parsers, results, raised].  A ValueError leaves the loop at once, with the
\* series of the parsers before i already extended.
ParseFrom(ps, i, line, acc) ==
    IF i > Len(ps) THEN [parsers |-> ps, results |-> acc, raised |-> FALSE]
    ELSE LET o == Parse(ps[i], line) IN
         IF o.raised THEN [parsers |-> ps, results |-> <<>>, raised |-> TRUE]
         ELSE ParseFrom([ps EXCEPT ![i] = o.parser], i + 1, line, acc \o o.result)

\* MetricPluginManager.parse_line
PluginParseLine(ps, line) ==
    ParseFrom(ps, 1, line, <<>>)

\* ModularMLLogParser._setup_default_parsers
DefaultParsers ==
    <<StandardMetricParser("Loss", KwLoss),
      StandardMetricParser("Accuracy", KwAccuracy),
      StandardMetricParser("Val_Loss", KwValLoss),
      StandardMetricParser("Val_Accuracy", KwValAccuracy),
      WERMetricParser>>

\* the custom metrics a pattern file may add: name and keyword of the pattern
CustomMetrics ==
    {[name |-> "Loss", kw |-> KwEpoch], [name |-> "Epoch", kw |-> KwEpoch]}

\* MetricPluginManager.add_parser
AddParser(ps, p) ==
    Append(ps, p)

(***************************************************************************)
(* Reporting: the merged series, the summary table and the plots.  A dict  *)
(* is the sequence of its entries [name, values] in insertion order.       *)
(***************************************************************************)
\* StandardMetricParser.get_plot_data and WERMetricParser.get_plot_data
GetPlotData(p) ==
    IF p.kind = "wer"
    THEN <<[name |-> "WER", values |-> p.values]>>
         \o (IF p.substitutions # <<>>
             THEN <<[name |-> "Substitutions", values |-> p.substitutions]>>
             ELSE <<>>)
         \o (IF p.deletions # <<>>
             THEN <<[name |-> "Deletions", values |-> p.deletions]>>
             ELSE <<>>)
         \o (IF p.insertions # <<>>
             THEN <<[name |-> "Insertions", values |-> p.insertions]>>
             ELSE <<>>)
    ELSE <<[name |-> p.metric_name, values |-> p.values]>>

\* whether the dict has the key
HasKey(data, name) ==
    \E i \in 1..Len(data) : data[i].name = name

\* an assignment that extends the series already stored under the name
PutEntryExtends(data, e) ==
    IF HasKey(data, e.name)
    THEN [i \in 1..Len(data) |->
             IF data[i].name = e.name
             THEN [name |-> e.name, values |-> data[i].values \o e.values]
             ELSE data[i]]
    ELSE Append(data, e)

\* plot_data[metric_name] = values
PutEntry(data, e) ==
    IF HasKey(data, e.name)
    THEN [i \in 1..Len(data) |-> IF data[i].name = e.name THEN e ELSE data[i]]
    ELSE Append(data, e)

RECURSIVE PutAll(_, _)
\* the inner loop of get_all_plot_data over one parser's entries
PutAll(data, es) ==
    IF es = <<>> THEN data ELSE PutAll(PutEntry(data, Head(es)), Tail(es))

RECURSIVE MergeFrom(_, _, _)
\* the outer loop of get_all_plot_data from parser i on
MergeFrom(ps, i, data) ==
    IF i > Len(ps) THEN data
    ELSE MergeFrom(ps, i + 1, PutAll(data, GetPlotData(ps[i])))

\* MetricPluginManager.get_all_plot_data
GetAllPlotData(ps) ==
    MergeFrom(ps, 1, <<>>)

\* the characters of the metric names in use
NameChars ==
    ("Loss" :> <<"L", "o", "s", "s">>) @@
    ("Accuracy" :> <<"A", "c", "c", "u", "r", "a", "c", "y">>) @@
    ("Val_Loss" :> <<"V", "a", "l", "_", "L", "o", "s", "s">>) @@
    ("Val_Accuracy" :> <<"V", "a", "l", "_", "A", "c", "c", "u", "r", "a", "c", "y">>) @@
    ("WER" :> <<"W", "E", "R">>) @@
    ("Substitutions" :> <<"S", "u", "b", "s", "t", "i", "t", "u", "t", "i", "o", "n", "s">>) @@
    ("Deletions" :> <<"D", "e", "l", "e", "t", "i", "o", "n", "s">>) @@
    ("Insertions" :> <<"I", "n", "s", "e", "r", "t", "i", "o", "n", "s">>) @@
    ("Epoch" :> <<"E", "p", "o", "c", "h">>)

\* 'loss' in metric_name.lower()
ContainsLoss(name) ==
    LET low == Lower(NameChars[name]) IN
    \E i \in 1..Len(low) :
       /\ i + Len(KwLoss) - 1 <= Len(low)
       /\ \A k \in 1..Len(KwLoss) : low[i + k - 1] = KwLoss[k]

\* min(values) and max(values) of a non-empty list
Min(values) ==
    CHOOSE v \in {values[i] : i \in 1..Len(values)} :
       \A i \in 1..Len(values) : v <= values[i]

Max(values) ==
    CHOOSE v \in {values[i] : i \in 1..Len(values)} :
       \A i \in 1..Len(values) : v >= values[i]

\* a best value that takes the maximum whatever the name
BestAlwaysMax(name, values) ==
    Max(values)

\* best = min(values) if 'loss' in metric_name.lower() else max(values)
Best(name, values) ==
    IF ContainsLoss(name) THEN Min(values) ELSE Max(values)

RECURSIVE SummaryRows(_)
\* the loop of format_email_body over plot_data: one row [name, current, best]
\* for every entry whose series is not empty.  The values have at most
\* FracDigits decimals, which the :.4f of the row writes out in full.
SummaryRows(data) ==
    IF data = <<>> THEN <<>>
    ELSE LET e == Head(data) IN
         (IF e.values # <<>>
          THEN <<[name |-> e.name, current |-> e.values[Len(e.values)],
                  best |-> Best(e.name, e.values)]>>
          ELSE <<>>)
         \o SummaryRows(Tail(data))

\* ModularMLLogWatcher.format_email_body: the rows of its metrics table
MetricsSummary(ps) ==
    SummaryRows(GetAllPlotData(ps))

MainMetrics == {"Loss", "Val_Loss", "Accuracy", "Val_Accuracy"}

\* the names of the entries of data that are in keep, in the dict's order
Plotted(data, keep) ==
    LET Kept(e) == e.name \in keep IN
    [i \in 1..Len(SelectSeq(data, Kept)) |-> SelectSeq(data, Kept)[i].name]

\* ModularMLLogParser.generate_training_plots: the files written, in the order
\* of saved_plots, each with the series plotted in it
GenerateTrainingPlots(ps) ==
    LET data == GetAllPlotData(ps) IN
    <<[path |-> "main_metrics.png", lines |-> Plotted(data, MainMetrics)]>>
    \o (IF HasKey(data, "WER")
        THEN <<[path |-> "wer_progress.png",
                lines |-> Plotted(data, {"WER"})
                          \o Plotted(data, {"Substitutions"})
                          \o Plotted(data, {"Deletions"})
                          \o Plotted(data, {"Insertions"})]>>
        ELSE <<>>)

\* The reporting calls read the series and change none, so the lines are
\* fed first and the reports taken after them.
NoReportYet ==
    plot_data = <<>> /\ metrics_summary = <<>> /\ saved_plots = <<>>

(***************************************************************************)
(* MLLogWatcher.                                                           *)
(***************************************************************************)
Absent == ""
Settings == [sender : {Absent, "arg"}, password : {Absent, "arg"},
             recipient : {Absent, "arg"}]
Environments == [sender : {Absent, "env"}, password : {Absent, "env"},
                 recipient : {Absent, "env"}]

\* a completeness test that forgets the recipient
AllSetButRecipient(cfg) ==
    cfg.sender # Absent /\ cfg.password # Absent

\* all([sender_email, sender_password, recipient_email])
AllSet(cfg) ==
    cfg.sender # Absent /\ cfg.password # Absent /\ cfg.recipient # Absent

\* setup_email_config: the settings it leaves in the object.
SetupEmailConfig(cfg, e) ==
    IF AllSet(cfg) THEN cfg ELSE e

\* should_send_email with a strict comparison
ShouldSendEmailStrict(t, last, interval) ==
    (t - last) > interval

\* should_send_email
ShouldSendEmail(t, last, interval) ==
    (t - last) >= interval

\* check_file_changes that takes the length of the text read for the new
\* position.
CheckFileChangesForgetsOffset(file, pos, buf, ok) ==
    IF ~ok
    THEN [content |-> <<>>, position |-> pos, buffer |-> buf]
    ELSE LET text == ReadFrom(file, pos) IN
         IF text # <<>>
         THEN [content |-> text, position |-> Len(text), buffer |-> buf \o text]
         ELSE [content |-> <<>>, position |-> pos, buffer |-> buf]

\* check_file_changes that moves the cursor to the end of the file before
\* the read fails.
CheckFileChangesSkipsOnError(file, pos, buf, ok) ==
    IF ~ok
    THEN [content |-> <<>>, position |-> TellAfterRead(file, pos), buffer |-> buf]
    ELSE LET text == ReadFrom(file, pos) IN
         IF text # <<>>
         THEN [content |-> text, position |-> TellAfterRead(file, pos),
               buffer |-> buf \o text]
         ELSE [content |-> <<>>, position |-> pos, buffer |-> buf]

\* check_file_changes: [content, position, buffer].  An I/O error
\* (ok = FALSE) is caught inside the method, which prints and returns None.
CheckFileChanges(file, pos, buf, ok) ==
    IF ~ok
    THEN [content |-> <<>>, position |-> pos, buffer |-> buf]
    ELSE LET text == ReadFrom(file, pos) IN
         IF text # <<>>
         THEN [content |-> text, position |-> TellAfterRead(file, pos),
               buffer |-> buf \o text]
         ELSE [content |-> <<>>, position |-> pos, buffer |-> buf]

\* watch, lines 153-161: setup_email_config raises ValueError when a setting
\* is still absent, and the error leaves watch(); else the loop is entered.
Setup ==
    /\ pc = "setup"
    /\ \E e \in Environments :
       LET cfg == SetupEmailConfig(
                      [sender |-> sender_email, password |-> sender_password,
                       recipient |-> recipient_email], e) IN
          /\ sender_email' = cfg.sender
          /\ sender_password' = cfg.password
          /\ recipient_email' = cfg.recipient
          /\ IF AllSet(cfg)
             THEN pc' = "poll" /\ out' = out
             ELSE pc' = "fatal" /\ out' = "ValueError"
    /\ UNCHANGED <<logfile, shrunk, now, check_interval, email_interval,
                   last_position, buffer, last_email_time, new_content,
                   email_body, delivered, sleeps, interrupted, parserVars>>

\* watch, line 166: new_content = self.check_file_changes()
Poll ==
    /\ pc = "poll"
    /\ \E ok \in BOOLEAN :
          LET r == CheckFileChanges(logfile, last_position, buffer, ok) IN
             /\ new_content' = r.content
             /\ last_position' = r.position
             /\ buffer' = r.buffer
             /\ out' = IF ok THEN "" ELSE "read_error"
             /\ pc' = IF r.content # <<>> THEN "process" ELSE "decide"
    /\ sleeps' = 0
    /\ UNCHANGED <<logfile, shrunk, now, configVars, last_email_time,
                   email_body, delivered, interrupted, parserVars>>

\* process_buffer: the base class's empty method, which the modular watcher
\* does not override.
ProcessBuffer(ps, content) ==
    ps

\* watch, lines 168-169
Process ==
    /\ pc = "process"
    /\ parsers' = ProcessBuffer(parsers, new_content)
    /\ pc' = "decide"
    /\ UNCHANGED <<logfile, shrunk, now, configVars, last_position, buffer,
                   last_email_time, new_content, email_body, delivered, out,
                   sleeps, interrupted, last_line, results, raised, reportVars>>

\* watch, line 172: if self.buffer and self.should_send_email()
Decide ==
    /\ pc = "decide"
    /\ pc' = IF buffer # <<>> /\ ShouldSendEmail(now, last_email_time, email_interval)
             THEN "render" ELSE "sleep"
    /\ UNCHANGED <<logfile, shrunk, now, configVars, last_position, buffer,
                   last_email_time, new_content, email_body, delivered, out,
                   sleeps, interrupted, parserVars>>

\* watch, lines 173-174: render the body and the subject.  An error raised
\* here is not caught inside the callee and reaches watch's `except Exception`.
Render ==
    /\ pc = "render"
    /\ \E ok \in BOOLEAN :
          IF ok
          THEN /\ email_body' = buffer
               /\ metrics_summary' = MetricsSummary(parsers)
               /\ pc' = "send"
               /\ out' = out
          ELSE /\ email_body' = email_body
               /\ metrics_summary' = metrics_summary
               /\ pc' = "errsleep"
               /\ out' = "cycle_error"
    /\ UNCHANGED <<logfile, shrunk, now, configVars, last_position, buffer,
                   last_email_time, new_content, delivered, sleeps,
                   interrupted, parsers, last_line, results, raised,
                   plot_data, saved_plots>>

\* lines 176-178 without the test of send_email's result
AfterSendUnconditional(buf, last, t, sent) ==
    [buffer |-> <<>>, last |-> t]

\* lines 176-178 with a schedule that advances by one interval per send
AfterSendCatchesUp(buf, last, t, sent) ==
    IF sent THEN [buffer |-> <<>>, last |-> last + email_interval]
    ELSE [buffer |-> buf, last |-> last]

\* lines 176-178 with a buffer that is dropped when the delivery failed
AfterSendGivesUp(buf, last, t, sent) ==
    IF sent THEN [buffer |-> <<>>, last |-> t] ELSE [buffer |-> <<>>, last |-> last]

\* watch, lines 176-178, after send_email returned sent: the buffer and
\* last_email_time it leaves
AfterSend(buf, last, t, sent) ==
    IF sent THEN [buffer |-> <<>>, last |-> t] ELSE [buffer |-> buf, last |-> last]

\* watch, lines 176-178 with send_email: a failure inside send_email is caught
\* there, printed, and returned as False.
Send ==
    /\ pc = "send"
    /\ \E sent \in BOOLEAN :
          LET r == AfterSend(buffer, last_email_time, now, sent) IN
             /\ delivered' = IF sent THEN delivered \o email_body ELSE delivered
             /\ out' = IF sent THEN "sent" ELSE "send_failed"
             /\ buffer' = r.buffer
             /\ last_email_time' = r.last
    /\ pc' = "sleep"
    /\ UNCHANGED <<logfile, shrunk, now, configVars, last_position,
                   new_content, email_body, sleeps, interrupted, parserVars>>

\* watch, line 180: time.sleep(self.check_interval)
Sleep ==
    /\ pc = "sleep"
    /\ now + check_interval <= MaxTime
    /\ now' = now + check_interval
    /\ sleeps' = sleeps + 1
    /\ pc' = "poll"
    /\ new_content' = <<>>
    /\ email_body' = <<>>
    /\ UNCHANGED <<logfile, shrunk, configVars, last_position, buffer,
                   last_email_time, delivered, out, interrupted, parserVars>>

\* a handler that sleeps and then falls through to the sleep of line 180
AfterCycleErrorFallsThrough(n) ==
    [pc |-> "sleep", sleeps |-> n + 1]

\* where the handler of `except Exception` leaves the process: [pc, sleeps]
\* after its time.sleep(self.check_interval), lines 191-193.
AfterCycleError(n) ==
    [pc |-> "poll", sleeps |-> n + 1]

ErrSleep ==
    /\ pc = "errsleep"
    /\ now + check_interval <= MaxTime
    /\ now' = now + check_interval
    /\ sleeps' = AfterCycleError(sleeps).sleeps
    /\ pc' = AfterCycleError(sleeps).pc
    /\ new_content' = <<>>
    /\ email_body' = <<>>
    /\ UNCHANGED <<logfile, shrunk, configVars, last_position, buffer,
                   last_email_time, delivered, out, interrupted, parserVars>>

\* time.sleep(d) on a clock that runs for ever.  The program reads the clock
\* only in time.time() - last_email_time, so when the clock would pass
\* MaxTime the origin of time is moved forward: both readings go down by the
\* same amount and their difference is kept, or stays at MaxTime or more,
\* which is past every interval.
SleepOn(t, last, d) ==
    IF t + d <= MaxTime THEN [now |-> t + d, last |-> last]
    ELSE LET shift == t + d - MaxTime IN
         [now |-> MaxTime, last |-> IF last >= shift THEN last - shift ELSE 0]

\* watch, line 180, on the clock that runs for ever
LiveSleep ==
    /\ pc = "sleep"
    /\ now' = SleepOn(now, last_email_time, check_interval).now
    /\ last_email_time' = SleepOn(now, last_email_time, check_interval).last
    /\ sleeps' = sleeps + 1
    /\ pc' = "poll"
    /\ new_content' = <<>>
    /\ email_body' = <<>>
    /\ UNCHANGED <<logfile, shrunk, configVars, last_position, buffer,
                   delivered, out, interrupted, parserVars>>

\* watch, lines 191-193, on the clock that runs for ever
LiveErrSleep ==
    /\ pc = "errsleep"
    /\ now' = SleepOn(now, last_email_time, check_interval).now
    /\ last_email_time' = SleepOn(now, last_email_time, check_interval).last
    /\ sleeps' = AfterCycleError(sleeps).sleeps
    /\ pc' = AfterCycleError(sleeps).pc
    /\ new_content' = <<>>
    /\ email_body' = <<>>
    /\ UNCHANGED <<logfile, shrunk, configVars, last_position, buffer,
                   delivered, out, interrupted, parserVars>>

(***************************************************************************)
(* The parser's operations, called on a ModularMLLogParser.                *)
(***************************************************************************)
\* ModularMLLogParser.parse_line(line)
ParseLine ==
    /\ pc = "setup"
    /\ NoReportYet
    /\ \A i \in 1..Len(parsers) : Len(parsers[i].values) < MaxParses
    /\ \E l \in SampleLines :
          LET r == PluginParseLine(parsers, l) IN
             /\ last_line' = l
             /\ parsers' = r.parsers
             /\ results' = r.results
             /\ raised' = r.raised
    /\ UNCHANGED <<logfile, shrunk, watcherProgramVars, reportVars>>

\* ModularMLLogParser.add_custom_metric(name, pattern)
AddCustomMetric ==
    /\ pc = "setup"
    /\ NoReportYet
    /\ Len(parsers) < MaxParsers
    /\ \E c \in CustomMetrics :
          parsers' = AddParser(parsers, StandardMetricParser(c.name, c.kw))
    /\ UNCHANGED <<logfile, shrunk, watcherProgramVars, last_line, results,
                   raised, reportVars>>

\* MetricPluginManager.get_all_plot_data()
CallGetAllPlotData ==
    /\ pc = "setup"
    /\ plot_data' = GetAllPlotData(parsers)
    /\ UNCHANGED <<logfile, shrunk, watcherProgramVars, parsers, last_line,
                   results, raised, metrics_summary, saved_plots>>

\* ModularMLLogWatcher.format_email_body(new_content): its metrics table
CallFormatEmailBody ==
    /\ pc = "setup"
    /\ metrics_summary' = MetricsSummary(parsers)
    /\ UNCHANGED <<logfile, shrunk, watcherProgramVars, parsers, last_line,
                   results, raised, plot_data, saved_plots>>

\* ModularMLLogParser.generate_training_plots(save_dir)
CallGenerateTrainingPlots ==
    /\ pc = "setup"
    /\ saved_plots' = GenerateTrainingPlots(parsers)
    /\ UNCHANGED <<logfile, shrunk, watcherProgramVars, parsers, last_line,
                   results, raised, plot_data, metrics_summary>>

(***************************************************************************)
(* The interrupt and the end of watch().                                   *)
(***************************************************************************)
\* the positions inside watch's try block, lines 164-180
InTry == {"poll", "process", "decide", "render", "send", "sleep"}

\* where a KeyboardInterrupt raised at position p takes the process: the
\* handler of lines 182-189 catches it only when it is raised in the try
\* block; raised before the loop or in the handler of `except Exception` it
\* leaves watch() uncaught.
InterruptTarget(p) ==
    IF p \in InTry THEN "final" ELSE "crashed"

\* Ctrl-C.  An interrupt during send_email is not caught there; the message
\* may or may not have reached the server.
Interrupt ==
    /\ ~interrupted
    /\ pc \in InTry \cup {"setup", "errsleep"}
    /\ interrupted' = TRUE
    /\ pc' = InterruptTarget(pc)
    /\ out' = IF pc' = "final" THEN "stopping" ELSE "KeyboardInterrupt"
    /\ delivered' \in IF pc = "send"
                      THEN {delivered, delivered \o email_body}
                      ELSE {delivered}
    /\ UNCHANGED <<logfile, shrunk, now, configVars, last_position, buffer,
                   last_email_time, new_content, email_body, sleeps, parserVars>>

\* watch, lines 183-189: the final report.  The result of send_email is
\* dropped; an error raised while rendering leaves watch().
Final ==
    /\ pc = "final"
    /\ IF buffer = <<>>
       THEN /\ pc' = "done"
            /\ UNCHANGED <<email_body, delivered, out>>
       ELSE \E outcome \in {"sent", "send_failed", "final_error"} :
               /\ out' = outcome
               /\ pc' = IF outcome = "final_error" THEN "crashed" ELSE "done"
               /\ email_body' = IF outcome = "final_error" THEN email_body
                                ELSE buffer
               /\ delivered' = IF outcome = "sent"
                               THEN delivered \o buffer ELSE delivered
    /\ UNCHANGED <<logfile, shrunk, now, configVars, last_position, buffer,
                   last_email_time, new_content, sleeps, interrupted, parserVars>>

(***************************************************************************)
(* Specifications.                                                         *)
(***************************************************************************)
\* The state once main() has built the watcher and watch() is about to run
\* its set-up: the settings come from the caller and the environment.
Init ==
    /\ pc = "setup"
    /\ logfile = <<>>
    /\ shrunk = FALSE
    /\ now = 0
    /\ check_interval \in CheckIntervals
    /\ email_interval \in EmailIntervals
    /\ \E cfg \in Settings :
          /\ sender_email = cfg.sender
          /\ sender_password = cfg.password
          /\ recipient_email = cfg.recipient
    /\ last_position = 0
    /\ buffer = <<>>
    /\ last_email_time = 0
    /\ new_content = <<>>
    /\ email_body = <<>>
    /\ delivered = <<>>
    /\ out = ""
    /\ sleeps = 0
    /\ interrupted = FALSE
    /\ parsers = DefaultParsers
    /\ last_line = <<>>
    /\ plot_data = <<>>
    /\ metrics_summary = <<>>
    /\ saved_plots = <<>>
    /\ results = <<>>
    /\ raised = FALSE

Next ==
    \/ AppendLog
    \/ TruncateLog
    \/ Setup
    \/ Poll
    \/ Process
    \/ Decide
    \/ Render
    \/ Send
    \/ Sleep
    \/ ErrSleep
    \/ Interrupt
    \/ Final

Spec == Init /\ [][Next]_vars

\* The watcher on a clock that runs for ever.  The process is one thread that
\* always takes its next step: the set-up, every statement of the loop and
\* both sleeps are weakly fair.  The log's writer and the interrupt are not.
LiveNext ==
    \/ AppendLog
    \/ TruncateLog
    \/ Setup
    \/ Poll
    \/ Process
    \/ Decide
    \/ Render
    \/ Send
    \/ LiveSleep
    \/ LiveErrSleep
    \/ Interrupt
    \/ Final

LiveFairness ==
    /\ WF_vars(Setup)
    /\ WF_vars(Poll)
    /\ WF_vars(Process)
    /\ WF_vars(Decide)
    /\ WF_vars(Render)
    /\ WF_vars(Send)
    /\ WF_vars(LiveSleep)
    /\ WF_vars(LiveErrSleep)
    /\ WF_vars(Final)

LiveSpec == Init /\ [][LiveNext]_vars /\ LiveFairness

\* The parser on its own: a ModularMLLogParser with the default settings of
\* the watcher around it, fed sample lines and custom metrics.
ParserInit ==
    /\ Init
    /\ check_interval = 1
    /\ email_interval = 2
    /\ sender_email = "arg" /\ sender_password = "arg" /\ recipient_email = "arg"

ParserNext ==
    \/ ParseLine
    \/ AddCustomMetric
    \/ CallGetAllPlotData
    \/ CallFormatEmailBody
    \/ CallGenerateTrainingPlots

ParserSpec == ParserInit /\ [][ParserNext]_vars

(***************************************************************************)
(* Properties.                                                             *)
(***************************************************************************)
\* a step of Send: send_email has returned and lines 176-178 are done
SendStep == pc = "send" /\ pc' = "sleep"

\* a step of Poll: check_file_changes has returned
PollStep == pc = "poll" /\ pc' \in {"process", "decide"}

\* C1: in the watch loop the pending buffer is emptied and the last-send
\* time reset exactly by a delivery attempt that succeeded; a failed attempt
\* leaves both as they were, and every attempt offers the whole buffer, so
\* the text of a failed attempt is offered again.
C1_BufferClearedOnlyOnSuccess ==
    [][ /\ (buffer # <<>> /\ buffer' = <<>>) \/ last_email_time' # last_email_time
           => SendStep /\ delivered' = delivered \o email_body
        /\ SendStep /\ delivered' # delivered
           => buffer' = <<>> /\ last_email_time' = now
        /\ SendStep /\ delivered' = delivered
           => buffer' = buffer /\ last_email_time' = last_email_time
        /\ pc = "send" => email_body = buffer /\ buffer # <<>>
      ]_vars

\* C1 witness: a delivery has just succeeded and emptied the buffer
C1_Witness ==
    /\ pc = "sleep" /\ out = "sent"
    /\ buffer = <<>> /\ delivered # <<>> /\ last_email_time = now

RECURSIVE SplitLines(_)
\* the lines of a text, split at "\n"
SplitLines(text) ==
    LET ends == {i \in 1..Len(text) : text[i] = LF} IN
    IF text = <<>> THEN <<>>
    ELSE IF ends = {} THEN <<text>>
    ELSE LET e == CHOOSE i \in ends : \A k \in ends : i <= k IN
         <<SubSeq(text, 1, e - 1)>> \o SplitLines(SubSeq(text, e + 1, Len(text)))

\* C2: when a poll returned new content, processing it dispatches it to the
\* parser registry: the series of every parser whose pattern matches a line
\* of the new content has grown, and the raw text is in the pending buffer.
C2_NewContentIsDispatched ==
    [][ pc = "process" /\ pc' = "decide"
        => /\ \A i \in 1..Len(parsers) :
                 (\E k \in 1..Len(SplitLines(new_content)) :
                     Search(parsers[i].pattern, Lower(SplitLines(new_content)[k])).found)
                 => Len(parsers'[i].values) > Len(parsers[i].values)
           /\ Len(buffer) >= Len(new_content)
           /\ SubSeq(buffer, Len(buffer) - Len(new_content) + 1, Len(buffer)) = new_content
      ]_vars

\* C3: on a log file that never shrank, a poll returns exactly the bytes
\* appended since the cursor was last moved and advances the cursor by
\* their number; with nothing appended it returns nothing and the cursor
\* stays.
C3_PollReturnsAppendedText ==
    [][ PollStep /\ out' # "read_error" /\ ~shrunk
        => /\ new_content' = SubSeq(logfile, last_position + 1, Len(logfile))
           /\ last_position' = last_position + Len(new_content')
      ]_vars

\* C4: the read cursor never decreases, whatever the polls meet: an
\* unreadable file, a file shrunk below the cursor, a file grown again.
C4_CursorNeverDecreases ==
    [][last_position' >= last_position]_vars

\* C4 witness: after a truncation the file has grown past the stale cursor
\* and a poll has read from that offset
C4_Witness ==
    /\ shrunk /\ pc = "process"
    /\ last_position = Len(logfile)
    /\ Len(new_content) < Len(logfile)

\* C5: a poll that hits an I/O error reports it and returns nothing; the
\* cursor and the pending buffer are unchanged, no error leaves the poll,
\* and the iteration goes on towards its sleep and the next check.
C5_PollErrorIsSoft ==
    [][ pc = "poll" /\ pc' # pc /\ out' = "read_error"
        => /\ new_content' = <<>>
           /\ last_position' = last_position
           /\ buffer' = buffer
           /\ pc' = "decide"
      ]_vars

\* C5 witness: a poll has failed while unread text was waiting in the file
C5_Witness ==
    /\ pc = "decide" /\ out = "read_error"
    /\ last_position < Len(logfile)
    /\ buffer # <<>>

\* C6: the loop enters a periodic report exactly when the buffer is not
\* empty and now - last_email_time >= email_interval; a delivery is only
\* attempted in such an iteration; last_email_time is the construction time
\* (0) until the first successful send and is only ever set to the time of a
\* send that succeeded.
C6_DueIffIntervalElapsed ==
    [][ /\ pc = "decide" /\ pc' \in {"render", "sleep"}
           => (pc' = "render" <=>
                  buffer # <<>> /\ now - last_email_time >= email_interval)
        /\ pc \in {"render", "send"}
           => buffer # <<>> /\ now - last_email_time >= email_interval
        /\ delivered = <<>> => last_email_time = 0
        /\ last_email_time' # last_email_time
           => SendStep /\ delivered' # delivered /\ last_email_time' = now
      ]_vars

\* C6 witness: a report is due again exactly one interval after a send
C6_Witness ==
    /\ pc = "render"
    /\ last_email_time > 0
    /\ now - last_email_time = email_interval

\* C7: an interrupt that arrives anywhere in the loop, the sleep after a
\* logged cycle error included, leads to the final reporting pass.
C7_InterruptLeadsToFinalPass ==
    [][ ~interrupted /\ interrupted' /\ pc \in InTry \cup {"errsleep"}
        => pc' = "final"
      ]_vars

\* C8: an error raised in an iteration is logged and followed by exactly
\* one sleep of check_interval before the next poll, whether it was caught
\* in the poll, in the delivery or by the loop's own handler; only an
\* interrupt ends the loop.
C8_CycleErrorSleepsOnce ==
    [][ /\ pc = "render" /\ out' = "cycle_error" => pc' = "errsleep"
        /\ pc' = "poll" /\ pc \notin {"poll", "setup"}
           => sleeps' = 1 /\ now' = now + check_interval
        /\ pc' \in {"final", "done", "crashed"} => interrupted'
      ]_vars

\* C8 witness: the loop is back at the poll after a logged cycle error
C8_Witness ==
    /\ pc = "poll" /\ out = "cycle_error"
    /\ sleeps = 1 /\ buffer # <<>>

\* C9: with a sender address, credential or recipient absent once the
\* configuration is resolved, watch ends in its set-up: nothing is polled,
\* buffered or delivered, and no iteration of the loop runs.
C9_IncompleteConfigIsFatal ==
    /\ pc \notin {"setup", "fatal", "crashed"}
       => sender_email # Absent /\ sender_password # Absent
          /\ recipient_email # Absent
    /\ (sender_email = Absent \/ sender_password = Absent
        \/ recipient_email = Absent) /\ pc # "setup"
       => /\ last_position = 0 /\ buffer = <<>> /\ delivered = <<>>
          /\ now = 0 /\ sleeps = 0

\* C9 witness: the environment gave a sender but no recipient while the log
\* already held text
C9_Witness ==
    /\ pc = "fatal"
    /\ sender_email = "env" /\ recipient_email = Absent
    /\ logfile # <<>>

\* a step that is one parse_line call
ParseStep == NoReportYet' /\ Len(parsers') = Len(parsers)

\* C10: a parse_line call extends by exactly one element the series of every
\* parser whose (primary) pattern matches the line, and over every step each
\* series keeps its earlier elements in place.
C10_MatchAppendsOneValue ==
    [][ /\ \A i \in 1..Len(parsers) :
              /\ Len(parsers'[i].values) >= Len(parsers[i].values)
              /\ SubSeq(parsers'[i].values, 1, Len(parsers[i].values))
                    = parsers[i].values
        /\ ParseStep
           => \A i \in 1..Len(parsers) :
                 Search(parsers[i].pattern, Lower(last_line')).found
                 => Len(parsers'[i].values) = Len(parsers[i].values) + 1
      ]_vars

\* the line matches no pattern of the parser
NoPatternMatches(p, line) ==
    /\ ~Search(p.pattern, Lower(line)).found
    /\ p.kind = "wer"
       => /\ ~Search(PatSub, Lower(line)).found
          /\ ~Search(PatDel, Lower(line)).found
          /\ ~Search(PatIns, Lower(line)).found

\* C11: a parse_line call on a line that matches none of the patterns of the
\* registered parsers returns the empty list, raises nothing and leaves every
\* series of every parser as it was.
C11_NoMatchChangesNothing ==
    [][ (ParseStep /\ \A i \in 1..Len(parsers) :
                         NoPatternMatches(parsers[i], last_line'))
        => /\ results' = <<>>
           /\ raised' = FALSE
           /\ parsers' = parsers
      ]_vars

\* a line without any metric was parsed after a line that had one
C11_Witness ==
    /\ pc = "setup"
    /\ last_line = LineNone
    /\ results = <<>>
    /\ ~raised
    /\ \E i \in 1..Len(parsers) : parsers[i].values # <<>>

\* the pattern of the parser captures text on the line that float() rejects
CapturesMalformed(p, line) ==
    LET m == Search(p.pattern, Lower(line)) IN
    m.found /\ FloatRaises(m.group)

\* C12: a parse_line call on a line where a pattern captures malformed numeric
\* text (1.2.3, ...) raises no error, returns nothing for that parser and
\* leaves its series unchanged.
C12_MalformedNumberIsNoMatch ==
    [][ ParseStep
        => \A i \in 1..Len(parsers) :
              CapturesMalformed(parsers[i], last_line')
              => /\ raised' = FALSE
                 /\ parsers'[i] = parsers[i]
                 /\ \A k \in 1..Len(results') :
                       results'[k].name # parsers[i].metric_name
      ]_vars

\* the sub-count a pattern finds on the lower-cased line, <<>> if none
Seen(pat, low) ==
    LET m == Search(pat, low) IN
    IF m.found THEN <<Float(m.group)>> ELSE <<>>

\* the results named WER among those returned
WerResults(res) ==
    LET IsWer(r) == r.name = "WER" IN SelectSeq(res, IsWer)

\* what a parse_line call that took the WER parser from p to q, returned res
\* and raised or not (err) owes to a lower-cased line on which the wer
\* pattern gave the match m
WerOutcomeFits(p, q, res, err, low, m) ==
    IF ~m.found
    THEN q = p /\ WerResults(res) = <<>>
    ELSE err \/ LET value == Float(m.group)
                    sub == Seen(PatSub, low)
                    del == Seen(PatDel, low)
                    ins == Seen(PatIns, low)
                IN  /\ WerResults(res)
                         = <<[name |-> "WER", value |-> value,
                              extra_info |-> [substitutions |-> sub,
                                              deletions |-> del,
                                              insertions |-> ins]]>>
                    /\ q.values = Append(p.values, value)
                    /\ q.substitutions = p.substitutions \o sub
                    /\ q.deletions = p.deletions \o del
                    /\ q.insertions = p.insertions \o ins

\* C13: the WER parser returns a result and changes its series only for a line
\* that has the wer value; then the result carries the sub-counts seen (<<>>
\* for an absent one) and each sub-count series gains one entry exactly when
\* its key is on the line.  A line without the wer value changes nothing.
C13_WerOnlyWithPrimaryValue ==
    [][ ParseStep
        => \A i \in 1..Len(parsers) :
              parsers[i].kind = "wer"
              => WerOutcomeFits(parsers[i], parsers'[i], results', raised',
                                Lower(last_line'),
                                Search(parsers[i].pattern, Lower(last_line')))
      ]_vars

\* 'wer: 0.21 substitutions: 3 deletions: 1' was parsed, and then a line with
\* a sub-count but no wer value, which changed nothing
C13_Witness ==
    /\ last_line = LineSubOnly
    /\ results = <<>>
    /\ \E i \in 1..Len(parsers) :
          /\ parsers[i].kind = "wer"
          /\ parsers[i].values = <<210>>
          /\ parsers[i].substitutions = <<3000>>
          /\ parsers[i].deletions = <<1000>>
          /\ parsers[i].insertions = <<>>

\* the entries of the merged mapping that have the name
EntriesNamed(data, name) ==
    {i \in 1..Len(data) : data[i].name = name}

\* C14: the mapping get_all_plot_data returns has one entry per metric name,
\* and the entry of a name is, whole and alone, the series of the last
\* registered parser that owns a series of that name.
C14_LastRegisteredWins ==
    plot_data # <<>>
    => /\ \A a, b \in 1..Len(plot_data) :
             plot_data[a].name = plot_data[b].name => a = b
       /\ \A a \in 1..Len(plot_data) :
             \E i \in 1..Len(parsers) :
                HasKey(GetPlotData(parsers[i]), plot_data[a].name)
       /\ \A i \in 1..Len(parsers) :
             \A k \in 1..Len(GetPlotData(parsers[i])) :
                LET own == GetPlotData(parsers[i])[k] IN
                (\A j \in (i + 1)..Len(parsers) :
                    ~HasKey(GetPlotData(parsers[j]), own.name))
                => \E a \in 1..Len(plot_data) : plot_data[a] = own

\* two parsers own a series named Loss, with different values, and the
\* merged mapping was taken
C14_Witness ==
    /\ plot_data # <<>>
    /\ \E i, j \in 1..Len(parsers) :
          /\ i < j
          /\ parsers[i].metric_name = "Loss"
          /\ parsers[j].metric_name = "Loss"
          /\ parsers[i].values # <<>>
          /\ parsers[j].values # <<>>
          /\ parsers[i].values # parsers[j].values

\* the metric names that contain 'loss' when lower-cased
LossNames == {"Loss", "Val_Loss"}

\* C15: the summary has one row for every metric whose series is not empty,
\* with current the last value of the series and best its minimum when the
\* name contains 'loss' and its maximum otherwise; an empty series has no row.
C15_SummaryRows ==
    metrics_summary # <<>>
    => LET data == GetAllPlotData(parsers) IN
       /\ \A a \in 1..Len(data) :
             data[a].values # <<>>
             => LET vs == data[a].values
                    rows == {r \in 1..Len(metrics_summary) :
                                metrics_summary[r].name = data[a].name}
                IN  /\ Cardinality(rows) = 1
                    /\ \A r \in rows :
                          /\ metrics_summary[r].current = vs[Len(vs)]
                          /\ \E k \in 1..Len(vs) :
                                metrics_summary[r].best = vs[k]
                          /\ \A k \in 1..Len(vs) :
                                IF data[a].name \in LossNames
                                THEN metrics_summary[r].best <= vs[k]
                                ELSE metrics_summary[r].best >= vs[k]
       /\ \A r \in 1..Len(metrics_summary) :
             \E a \in 1..Len(data) :
                /\ data[a].name = metrics_summary[r].name
                /\ data[a].values # <<>>

\* Loss [0.4, 0.9] has best 0.4 and current 0.9, Accuracy [0.8, 0.5] has best
\* 0.8 and current 0.5, and the metrics without a value have no row
C15_Witness ==
    /\ \E r \in 1..Len(metrics_summary) :
          metrics_summary[r] = [name |-> "Loss", current |-> 900, best |-> 400]
    /\ \E r \in 1..Len(metrics_summary) :
          metrics_summary[r]
             = [name |-> "Accuracy", current |-> 500, best |-> 800]
    /\ Len(metrics_summary) < Len(GetAllPlotData(parsers))

\* C16: a delivery setting given to the constructor is never replaced, by an
\* environment value or by absence, whichever other settings are missing.
C16_SuppliedSettingIsKept ==
    [][ /\ sender_email # Absent => sender_email' = sender_email
        /\ sender_password # Absent => sender_password' = sender_password
        /\ recipient_email # Absent => recipient_email' = recipient_email
      ]_vars

\* C17: a delivery attempt of the loop has the plots rendered from the full
\* series before it in the same cycle.
C17_PlotsRenderedBeforeDelivery ==
    pc = "send" => saved_plots = GenerateTrainingPlots(parsers)

\* C18: a cycle makes at most one delivery attempt and then sleeps; a report
\* is entered only from the send test, with a buffer and a full interval since
\* last_email_time; a successful send sets last_email_time to the time of the
\* send, not one interval on, however long no send had happened; and the
\* first test that finds the interval elapsed and a buffer enters the report.
C18_NoCatchUp ==
    [][ /\ pc = "send" => pc' \in {"sleep", "final"}
        /\ (pc' = "send" /\ pc # "send") => pc = "render"
        /\ (pc' = "render" /\ pc # "render")
           => /\ pc = "decide"
              /\ buffer # <<>>
              /\ now - last_email_time >= email_interval
        /\ (pc = "sleep" /\ pc' = "poll") => now' >= now + check_interval
        /\ (SendStep /\ out' = "sent")
           => /\ last_email_time' = now
              /\ now - last_email_time' < email_interval
        /\ (pc = "decide" /\ pc' = "sleep")
           => buffer = <<>> \/ now - last_email_time < email_interval
      ]_vars

\* the first successful send came two intervals or more after the start, and
\* the schedule restarts from the time of that send
C18_Witness ==
    /\ pc = "sleep"
    /\ out = "sent"
    /\ last_email_time = now
    /\ now >= 2 * email_interval
    /\ delivered = <<"a", LF>>
    /\ buffer = <<>>

\* C19: generate_training_plots writes the WER plot exactly when the WER
\* series is not empty, and overlays a sub-count only when its series is not
\* empty.
C19_WerPlotOnlyWithWerData ==
    saved_plots # <<>>
    => \A i \in 1..Len(parsers) :
          parsers[i].kind = "wer"
          => /\ (\E k \in 1..Len(saved_plots) :
                    saved_plots[k].path = "wer_progress.png")
                <=> parsers[i].values # <<>>
             /\ \A k \in 1..Len(saved_plots) :
                   \A n \in 1..Len(saved_plots[k].lines) :
                      /\ saved_plots[k].lines[n] = "Substitutions"
                         => parsers[i].substitutions # <<>>
                      /\ saved_plots[k].lines[n] = "Deletions"
                         => parsers[i].deletions # <<>>
                      /\ saved_plots[k].lines[n] = "Insertions"
                         => parsers[i].insertions # <<>>

\* C20: while the log only grows and no interrupt came, at the end of a cycle
\* the delivered texts followed by the pending buffer are the log from its
\* start to the cursor.
C20_DeliveredAndPendingAreTheLog ==
    (pc \in {"sleep", "errsleep"} /\ ~shrunk /\ ~interrupted)
    => delivered \o buffer = SubSeq(logfile, 1, last_position)

\* C21: when no interrupt comes and from some point on no reporting pass
\* fails (neither the delivery nor the rendering before it), a non-empty
\* buffer is eventually delivered and emptied, whatever failed before.
C21_BufferEventuallyDelivered ==
    ([]~interrupted /\ <>[](out \notin {"send_failed", "cycle_error"}))
    => ((buffer # <<>>) ~> (buffer = <<>> /\ out = "sent"))

\* the text was delivered when the clock had reached MaxTime, that is after
\* cycles in which it was still to be written or still pending
C21_Witness ==
    /\ pc = "sleep"
    /\ out = "sent"
    /\ buffer = <<>>
    /\ delivered = <<"a", LF>>
    /\ now = MaxTime
    /\ last_email_time = MaxTime

====
